---- MODULE Spec2Model ----
(***************************************************************************)
(* The two transcription wrappers of the repository:                       *)
(*   examples/autogen-agent.py  VideoTranscriptionCapability.transcribe_video *)
(*   examples/crewai-agent.py   VideoTranscriptionTool._run                *)
(* Each call builds a command line, runs the external transcription        *)
(* process to completion, and on exit status 0 scans <agent_path>/output   *)
(* for the newest file ending in '_transcription.json', parses it and      *)
(* reshapes it into the returned record.  The external process and the     *)
(* output directory are the environment: the process may exit with any     *)
(* status, print anything on standard error and leave any file behind.     *)
(***************************************************************************)
EXTENDS Integers, Sequences, FiniteSets, TLC

\* Number of calls of the wrappers (possibly overlapping in time).
NumInv == 2
\* Number of distinct creation timestamps the file system gives out.
MaxClock == 2

Invocations == 1..NumInv

(***************************************************************************)
(* Python values.  Strings are TLA+ strings, dicts are functions from key  *)
(* strings, lists are sequences.  None is a token outside every set of     *)
(* texts used below.                                                       *)
(***************************************************************************)
None == "<None>"
EmptyDict == [k \in {} |-> None]

\* dict.get(key, default)
Get(d, k, default) == IF k \in DOMAIN d THEN d[k] ELSE default

\* Truth value of a str-or-None operand: '' and None are false.
Falsy(v) == v = None \/ v = ""

\* a or b, mutated: the first operand wins whatever its value.
OrFirst(a, b) == a

\* Python's `a or b` on str-or-None operands.
Or(a, b) == IF Falsy(a) THEN b ELSE a

(***************************************************************************)
(* Artifact documents the external process may leave behind.  kind is      *)
(* "garbage" for text json.load rejects, "array" for valid JSON that is    *)
(* not an object, "object" for a JSON object (obj).  Confidence is in      *)
(* hundredths.                                                             *)
(***************************************************************************)
DocGarbage == [kind |-> "garbage", obj |-> EmptyDict]
DocArray == [kind |-> "array", obj |-> EmptyDict]
DocEmpty == [kind |-> "object", obj |-> EmptyDict]
DocRaw ==
    [kind |-> "object",
     obj |-> [transcription |-> [fullText |-> "hello world", confidence |-> 90]]]
DocFull ==
    [kind |-> "object",
     obj |-> [transcription |-> [fullText |-> "hello world", confidence |-> 90],
              enhancement |-> [enhancedText |-> "Hello, world.",
                               summary |-> "greeting",
                               keyPoints |-> <<"greeting">>,
                               topics |-> <<"intro">>,
                               sentiment |-> "neutral"],
              metadata |-> [processingOptions |->
                               [outputFiles |-> <<"json">>]]]]
DocEmptyEnhanced ==
    [kind |-> "object",
     obj |-> [transcription |-> [fullText |-> "hello world", confidence |-> 0],
              enhancement |-> [enhancedText |-> "", sentiment |-> "positive"]]]
DocEnhancedOnly ==
    [kind |-> "object",
     obj |-> [enhancement |-> [enhancedText |-> "Hello, world."]]]

Docs ==
    {DocGarbage, DocArray, DocEmpty, DocRaw, DocFull, DocEmptyEnhanced,
     DocEnhancedOnly}

(***************************************************************************)
(* The output directory: whether it exists, and its entries in listing     *)
(* order.  A file name is a stem and a tail; the stem is the call whose    *)
(* process wrote it.                                                       *)
(***************************************************************************)
Suffix == "_transcription.json"
TextTail == "_transcription.txt"

EndsWith(name, suffix) == name.tail = suffix

File(w, tail, t, doc) ==
    [name |-> [stem |-> w, tail |-> tail], ctime |-> t, writer |-> w, doc |-> doc]

\* The documents the process of call w may write: any for the first call,
\* the well-formed one for the later calls.
DocsOf(w) == IF w = 1 THEN Docs ELSE {DocFull}

\* What a run of the external process of call w leaves in the directory.
Writes(w) ==
    {[kind |-> "nothing", doc |-> DocEmpty], [kind |-> "text", doc |-> DocEmpty]}
        \cup {[kind |-> "json", doc |-> d] : d \in DocsOf(w)}

InsertAt(s, k, x) == SubSeq(s, 1, k - 1) \o <<x>> \o SubSeq(s, k, Len(s))

Written(d, w, wr, t, k) ==
    IF wr.kind = "nothing" THEN d
    ELSE [exists |-> TRUE,
          files |-> InsertAt(d.files, k,
                       File(w, IF wr.kind = "json" THEN Suffix ELSE TextTail, t, wr.doc))]

ExitCodes == {0, 1}
StderrTexts == {"", "ffmpeg not found"}

VARIABLES
    dir,      \* the output directory
    clock,    \* the latest timestamp the file system has given a file
    pc,       \* per call: "idle", "running", "exited", "done"
    impl,     \* the wrapper in use: "autogen" or "crewai"
    proc,     \* per call: <<>> or <<CompletedProcess>> until the call returns
    status,   \* per call: <<>> or <<the exit status its process ended with>>
    result,   \* per call: the record returned
    listed,   \* per call: "no", or how its os.listdir call ended: "raised", "listed"
    from      \* per call: <<>> or <<the file the record was built from>>

vars == <<dir, clock, pc, impl, proc, status, result, listed, from>>

NoResult == [pending |-> TRUE]

Init ==
    /\ dir \in {[exists |-> e, files |-> <<>>] : e \in BOOLEAN}
    /\ clock = 0
    /\ pc = [i \in Invocations |-> "idle"]
    /\ impl \in {"autogen", "crewai"}
    /\ proc = [i \in Invocations |-> <<>>]
    /\ status = [i \in Invocations |-> <<>>]
    /\ result = [i \in Invocations |-> NoResult]
    /\ listed = [i \in Invocations |-> "no"]
    /\ from = [i \in Invocations |-> <<>>]

(***************************************************************************)
(* The records the wrappers return.                                        *)
(***************************************************************************)
Failure(msg) == [success |-> FALSE, error |-> msg]

\* Mutated fall-through message: the diagnostic stream as it is.
ProcessErrorRaw(err) == err

\* result.stderr or 'Transcription failed'
ProcessError(err) == Or(err, "Transcription failed")

\* str(e) of the exceptions the except clause catches.
JSONDecodeErrorText == "Expecting value: line 1 column 1 (char 0)"
AttributeErrorText == "'list' object has no attribute 'get'"
ListDirErrorText == "[Errno 2] No such file or directory: 'output'"
SpawnErrorText == "[Errno 2] No such file or directory: 'node'"
KeyErrorText(k) == IF k = "transcription" THEN "'transcription'" ELSE "'fullText'"

\* autogen-agent.py: json.load and the dict literal of the success return.
AutogenRecord(doc) ==
    IF doc.kind = "garbage" THEN Failure(JSONDecodeErrorText)
    ELSE IF doc.kind = "array" THEN Failure(AttributeErrorText)
    ELSE LET data == doc.obj
             enhancement == Get(data, "enhancement", EmptyDict)
             enhancedText == Get(enhancement, "enhancedText", None)
         IN  IF Falsy(enhancedText) /\ "transcription" \notin DOMAIN data
             THEN Failure(KeyErrorText("transcription"))
             ELSE IF Falsy(enhancedText) /\ "fullText" \notin DOMAIN data.transcription
             THEN Failure(KeyErrorText("fullText"))
             ELSE [success |-> TRUE,
                   transcription |-> Or(enhancedText, data.transcription.fullText),
                   summary |-> Get(enhancement, "summary", None),
                   keyPoints |-> Get(enhancement, "keyPoints", <<>>),
                   topics |-> Get(enhancement, "topics", <<>>),
                   sentiment |-> Get(enhancement, "sentiment", None)]

\* crewai-agent.py: json.load and the object handed to json.dumps.
CrewaiRecord(doc) ==
    IF doc.kind = "garbage" THEN Failure(JSONDecodeErrorText)
    ELSE IF doc.kind = "array" THEN Failure(AttributeErrorText)
    ELSE LET data == doc.obj
             enhancement == Get(data, "enhancement", EmptyDict)
             transcription == Get(data, "transcription", EmptyDict)
         IN  [success |-> TRUE,
              transcription |-> Or(Get(enhancement, "enhancedText", None),
                                   Get(transcription, "fullText", "")),
              summary |-> Get(enhancement, "summary", ""),
              key_points |-> Get(enhancement, "keyPoints", <<>>),
              topics |-> Get(enhancement, "topics", <<>>),
              sentiment |-> Get(enhancement, "sentiment", "neutral"),
              confidence |-> Get(transcription, "confidence", 0),
              output_files |->
                  Get(Get(Get(data, "metadata", EmptyDict),
                          "processingOptions", EmptyDict),
                      "outputFiles", <<>>)]

Normalize(im, doc) ==
    IF im = "autogen" THEN AutogenRecord(doc) ELSE CrewaiRecord(doc)

(***************************************************************************)
(* Selection of the artifact.                                              *)
(***************************************************************************)
\* [f for f in os.listdir(output_dir) if f.endswith('_transcription.json')]
JsonFiles(files) == SelectSeq(files, LAMBDA f : EndsWith(f.name, Suffix))

RECURSIVE MinFrom(_, _, _)
MinFrom(s, k, best) ==
    IF k > Len(s) THEN best
    ELSE MinFrom(s, k + 1, IF s[k].ctime < best.ctime THEN s[k] ELSE best)

\* Mutated selection: the oldest file.
PyMin(s) == MinFrom(s, 2, s[1])

RECURSIVE MaxFrom(_, _, _)
MaxFrom(s, k, best) ==
    IF k > Len(s) THEN best
    ELSE MaxFrom(s, k + 1, IF s[k].ctime > best.ctime THEN s[k] ELSE best)

\* max(json_files, key=getctime): the first entry of the largest key.
PyMax(s) == MaxFrom(s, 2, s[1])

\* The body of `if result.returncode == 0:` and the fall-through return.
Locate(im, err, d) ==
    IF ~d.exists
    THEN [rec |-> Failure(ListDirErrorText), listed |-> "raised", from |-> <<>>]
    ELSE LET json_files == JsonFiles(d.files)
         IN  IF json_files # <<>>
             THEN LET latest_file == PyMax(json_files)
                  IN  [rec |-> Normalize(im, latest_file.doc),
                       listed |-> "listed", from |-> <<latest_file>>]
             ELSE [rec |-> Failure(ProcessError(err)),
                   listed |-> "listed", from |-> <<>>]

\* What the call returns once subprocess.run has returned p.
AfterRun(im, p, d) ==
    IF p.returncode = 0 THEN Locate(im, p.stderr, d)
    ELSE [rec |-> Failure(ProcessError(p.stderr)), listed |-> "no", from |-> <<>>]

(***************************************************************************)
(* Entry of the calls.  The command line handed to subprocess.run is built *)
(* from video_path, enhance and output_format and is read by the external  *)
(* process alone, whose behaviour is unconstrained: it is not kept.        *)
(***************************************************************************)
\* input_data of _run, as json.loads sees it.
CrewaiInputs ==
    {[kind |-> "garbage", obj |-> EmptyDict],
     [kind |-> "array", obj |-> EmptyDict],
     [kind |-> "object", obj |-> EmptyDict],
     [kind |-> "object", obj |-> [video_path |-> "meeting.mp4"]],
     [kind |-> "object",
      obj |-> [video_path |-> "meeting.mp4", enhance |-> FALSE,
               output_format |-> "txt"]]}

\* _run up to subprocess.run: either a record is returned or the process is run.
CrewaiEntry(inp) ==
    IF inp.kind = "garbage"
    THEN [returned |-> TRUE, rec |-> Failure(JSONDecodeErrorText)]
    ELSE IF inp.kind = "array"
    THEN [returned |-> TRUE, rec |-> Failure(AttributeErrorText)]
    ELSE LET data == inp.obj
             video_path == Get(data, "video_path", None)
         IN  IF Falsy(video_path)
             THEN [returned |-> TRUE, rec |-> [error |-> "video_path is required"]]
             ELSE [returned |-> FALSE, rec |-> NoResult]

(***************************************************************************)
(* Actions.                                                                *)
(***************************************************************************)
\* Calls are numbered in the order they start.
MayStart(i) == pc[i] = "idle" /\ (IF i = 1 THEN TRUE ELSE pc[i - 1] # "idle")

CallAutogen(i) ==
    /\ MayStart(i)
    /\ impl = "autogen"
    /\ pc' = [pc EXCEPT ![i] = "running"]
    /\ UNCHANGED <<dir, clock, impl, proc, status, result, listed, from>>

CallCrewai(i) ==
    /\ MayStart(i)
    /\ impl = "crewai"
    /\ \E inp \in CrewaiInputs :
          LET e == CrewaiEntry(inp)
          IN  /\ result' = [result EXCEPT ![i] = e.rec]
              /\ pc' = [pc EXCEPT ![i] = IF e.returned THEN "done" ELSE "running"]
    /\ UNCHANGED <<dir, clock, impl, proc, status, listed, from>>

\* subprocess.run raises (no node executable, no working directory).
SpawnFail(i) ==
    /\ pc[i] = "running"
    /\ result' = [result EXCEPT ![i] = Failure(SpawnErrorText)]
    /\ pc' = [pc EXCEPT ![i] = "done"]
    /\ UNCHANGED <<dir, clock, impl, proc, status, listed, from>>

\* The external process ends: subprocess.run returns its status and stderr.
ProcExit(i) ==
    /\ pc[i] = "running"
    /\ \E code \in ExitCodes, err \in StderrTexts, wr \in Writes(i),
          k \in {1, Len(dir.files) + 1}, t \in {clock, clock + 1} :
          /\ IF wr.kind = "nothing" THEN k = 1 /\ t = clock ELSE t \in 1..MaxClock
          /\ proc' = [proc EXCEPT ![i] = <<[returncode |-> code, stderr |-> err]>>]
          /\ status' = [status EXCEPT ![i] = <<code>>]
          /\ dir' = Written(dir, i, wr, t, k)
          /\ clock' = t
    /\ pc' = [pc EXCEPT ![i] = "exited"]
    /\ UNCHANGED <<impl, result, listed, from>>

Finish(i, out) ==
    /\ result' = [result EXCEPT ![i] = out.rec]
    /\ listed' = [listed EXCEPT ![i] = out.listed]
    /\ from' = [from EXCEPT ![i] = out.from]
    /\ proc' = [proc EXCEPT ![i] = <<>>]
    /\ pc' = [pc EXCEPT ![i] = "done"]
    /\ UNCHANGED <<clock, impl, status>>

\* Mutated return: only the files named after this call are candidates.
ReturnCorrelated(i) ==
    /\ pc[i] = "exited"
    /\ LET own == [dir EXCEPT !.files = SelectSeq(dir.files, LAMBDA f : f.name.stem = i)]
       IN  Finish(i, AfterRun(impl, proc[i][1], own))
    /\ dir' = dir

\* Mutated return: the artifact is removed once it has been read.
ReturnConsuming(i) ==
    /\ pc[i] = "exited"
    /\ LET out == AfterRun(impl, proc[i][1], dir)
       IN  /\ Finish(i, out)
           /\ dir' = [dir EXCEPT !.files =
                         SelectSeq(dir.files, LAMBDA f : <<f>> # out.from)]

\* The rest of the call after subprocess.run has returned.
Return(i) ==
    /\ pc[i] = "exited"
    /\ Finish(i, AfterRun(impl, proc[i][1], dir))
    /\ dir' = dir

Next ==
    \E i \in Invocations :
        CallAutogen(i) \/ CallCrewai(i) \/ SpawnFail(i) \/ ProcExit(i) \/ Return(i)

Spec == Init /\ [][Next]_vars

\* The caller's discipline of one call at a time on the shared directory.
NoneInFlight == \A j \in Invocations : pc[j] \in {"idle", "done"}

SerialCallAutogen(i) == NoneInFlight /\ CallAutogen(i)

SerialCallCrewai(i) == NoneInFlight /\ CallCrewai(i)

NextSerial ==
    \E i \in Invocations :
        \/ SerialCallAutogen(i)
        \/ SerialCallCrewai(i)
        \/ SpawnFail(i)
        \/ ProcExit(i)
        \/ Return(i)

SpecSerial == Init /\ [][NextSerial]_vars

(***************************************************************************)
(* Vocabulary of the properties.                                           *)
(***************************************************************************)
Done(i) == pc[i] = "done"

\* The step in which call i returns after its process has ended.
Returns(i) == pc[i] = "exited" /\ pc'[i] = "done"

IsSuccess(r) == "success" \in DOMAIN r /\ r.success
IsFailure(r) ==
    "success" \in DOMAIN r /\ ~r.success /\ "error" \in DOMAIN r /\ ~Falsy(r.error)

Matching(files) == {k \in 1..Len(files) : EndsWith(files[k].name, Suffix)}

EnhancementOf(doc) == Get(doc.obj, "enhancement", EmptyDict)
TranscriptionOf(doc) == Get(doc.obj, "transcription", EmptyDict)

\* The four failure kinds, as they show in a call that has returned.
ProcessFailure(i) == Done(i) /\ status[i] # <<>> /\ status[i] # <<0>>
IOUnavailable(i) == Done(i) /\ listed[i] = "raised"
NoArtifactFound(i) == Done(i) /\ listed[i] = "listed" /\ from[i] = <<>>
MalformedDoc(doc) ==
    \/ doc.kind # "object"
    \/ "transcription" \notin DOMAIN doc.obj
    \/ "fullText" \notin DOMAIN TranscriptionOf(doc)
    \/ "confidence" \notin DOMAIN TranscriptionOf(doc)
MalformedArtifact(i) == Done(i) /\ from[i] # <<>> /\ MalformedDoc(from[i][1].doc)

(***************************************************************************)
(* C1.  Every record a call returns has success=true with the primary text *)
(* present, or success=false with an error message present.                *)
(***************************************************************************)
C1_ExactlyOneShape ==
    \A i \in Invocations :
        Done(i) =>
            LET r == result[i]
            IN  /\ "success" \in DOMAIN r
                /\ IF r.success
                   THEN "transcription" \in DOMAIN r /\ r.transcription # None
                   ELSE "error" \in DOMAIN r /\ ~Falsy(r.error)

(***************************************************************************)
(* C2.  Each of the four failure kinds (non-zero exit, directory cannot be *)
(* listed, no file with the suffix, selected file unparsable or missing    *)
(* mandatory sub-fields) ends the call with a success=false record that    *)
(* carries an error message.                                               *)
(***************************************************************************)
C2_FailuresAreFailureRecords ==
    \A i \in Invocations :
        (ProcessFailure(i) \/ IOUnavailable(i) \/ NoArtifactFound(i)
            \/ MalformedArtifact(i))
            => IsFailure(result[i])

(***************************************************************************)
(* C3.  As claimed: on a non-zero exit status the call returns without     *)
(* listing the directory, and the record is success=false with the         *)
(* process's standard-error text as its error message.                     *)
(***************************************************************************)
C3_StderrIsTheError ==
    [][\A i \in Invocations :
          (Returns(i) /\ proc[i][1].returncode # 0)
              => /\ listed'[i] = "no"
                 /\ result'[i] = Failure(proc[i][1].stderr)]_vars

(***************************************************************************)
(* C3, amended.  On a non-zero exit status the call returns without        *)
(* listing the directory, and the record is success=false with the         *)
(* standard-error text as its error message when that text is not empty,   *)
(* and with 'Transcription failed' when it is empty.                       *)
(***************************************************************************)
C3_NonZeroExitShortCircuits ==
    [][\A i \in Invocations :
          (Returns(i) /\ proc[i][1].returncode # 0)
              => /\ listed'[i] = "no"
                 /\ from'[i] = <<>>
                 /\ result'[i] =
                        Failure(IF proc[i][1].stderr = "" THEN "Transcription failed"
                                ELSE proc[i][1].stderr)]_vars

\* A call whose process failed silently returned, with an artifact in the
\* directory it did not look at.
C3_Witness ==
    \E i \in Invocations :
        /\ Done(i) /\ status[i] = <<1>> /\ listed[i] = "no"
        /\ result[i] = Failure("Transcription failed")
        /\ Matching(dir.files) # {}

(***************************************************************************)
(* C4.  The record is built from a file whose name ends with the suffix    *)
(* and than which no file with the suffix has a strictly later creation    *)
(* timestamp.                                                              *)
(***************************************************************************)
C4_NewestMatchingSelected ==
    [][\A i \in Invocations :
          Returns(i) =>
              /\ IsSuccess(result'[i]) => from'[i] # <<>>
              /\ from'[i] # <<>> =>
                    /\ \E k \in Matching(dir.files) : dir.files[k] = from'[i][1]
                    /\ \A k \in Matching(dir.files) :
                          dir.files[k].ctime <= from'[i][1].ctime
                    /\ result'[i] = Normalize(impl, from'[i][1].doc)]_vars

\* A call returned the record of the newer of two artifacts, which the
\* directory lists first.
C4_Witness ==
    \E i \in Invocations :
        /\ Done(i) /\ IsSuccess(result[i])
        /\ Len(dir.files) >= 2
        /\ from[i] = <<dir.files[1]>>
        /\ \E k \in Matching(dir.files) : dir.files[k].ctime < dir.files[1].ctime

(***************************************************************************)
(* C5.  As claimed: the transcription field is the enhanced text whenever  *)
(* the artifact has an enhanced-text field, whatever its value, and the    *)
(* raw full text when the artifact has only raw text.                      *)
(***************************************************************************)
C5_EnhancedWhateverItsValue ==
    \A i \in Invocations :
        (Done(i) /\ IsSuccess(result[i]) /\ from[i] # <<>>) =>
            LET enh == EnhancementOf(from[i][1].doc)
                tr == TranscriptionOf(from[i][1].doc)
            IN  /\ "enhancedText" \in DOMAIN enh
                      => result[i].transcription = enh.enhancedText
                /\ ("enhancedText" \notin DOMAIN enh /\ "fullText" \in DOMAIN tr)
                      => result[i].transcription = tr.fullText

(***************************************************************************)
(* C5, amended.  The transcription field is the enhanced text whenever the *)
(* artifact has a non-empty enhanced-text field, and the raw full text     *)
(* when the enhanced text is absent or empty and the raw text is there.    *)
(***************************************************************************)
C5_EnhancedUnlessEmpty ==
    \A i \in Invocations :
        (Done(i) /\ IsSuccess(result[i]) /\ from[i] # <<>>) =>
            LET enh == EnhancementOf(from[i][1].doc)
                tr == TranscriptionOf(from[i][1].doc)
                empty == "enhancedText" \in DOMAIN enh => enh.enhancedText \in {"", None}
            IN  /\ ~empty => result[i].transcription = enh.enhancedText
                /\ (empty /\ "fullText" \in DOMAIN tr)
                      => result[i].transcription = tr.fullText

\* A success record built from an artifact whose enhanced text is empty
\* carries the raw text.
C5_Witness ==
    \E i \in Invocations :
        /\ Done(i) /\ IsSuccess(result[i]) /\ from[i] # <<>>
        /\ from[i][1].doc = DocEmptyEnhanced
        /\ result[i].transcription = "hello world"

(***************************************************************************)
(* C6.  After exit status 0, a directory that is empty, holds no file with *)
(* the suffix or cannot be listed gives a success=false record whose error *)
(* differs from the one of a call whose process failed.                    *)
(***************************************************************************)
C6_NoArtifactDistinguishable ==
    \A j \in Invocations :
        (NoArtifactFound(j) \/ IOUnavailable(j)) =>
            /\ IsFailure(result[j])
            /\ \A i \in Invocations : ProcessFailure(i) => result[i] # result[j]

(***************************************************************************)
(* C7.  A call that returns when another call's artifact is strictly newer *)
(* than every artifact of its own builds its record from an artifact it    *)
(* did not write: nothing in the selection ties a file to the call.        *)
(***************************************************************************)
C7_NewerForeignArtifactWins ==
    [][\A i \in Invocations :
          (/\ Returns(i)
           /\ proc[i][1].returncode = 0
           /\ \E k \in Matching(dir.files) :
                 /\ dir.files[k].writer # i
                 /\ \A m \in Matching(dir.files) :
                       dir.files[m].writer = i
                           => dir.files[m].ctime < dir.files[k].ctime)
              => from'[i] # <<>> /\ from'[i][1].writer # i]_vars

\* A call whose process wrote an artifact returned a success record built
\* from the artifact of another call, which is still in flight.
C7_Witness ==
    \E i, j \in Invocations :
        /\ i # j
        /\ Done(i) /\ IsSuccess(result[i])
        /\ from[i] # <<>> /\ from[i][1].writer = j
        /\ pc[j] = "exited"
        /\ \E k \in Matching(dir.files) : dir.files[k].writer = i

SentimentLabels == {"positive", "neutral", "negative"}
ConfidenceValues == 0..100

IsSequence(v) == DOMAIN v = 1..Len(v)

C9_ExplicitUnknowns ==
    \A i \in Invocations :
        (Done(i) /\ IsSuccess(result[i]) /\ from[i] # <<>>) =>
            LET r == result[i]
                enh == EnhancementOf(from[i][1].doc)
                tr == TranscriptionOf(from[i][1].doc)
                key_points == IF "key_points" \in DOMAIN r THEN r.key_points
                              ELSE r.keyPoints
            IN  /\ IsSequence(key_points) /\ IsSequence(r.topics)
                /\ "keyPoints" \notin DOMAIN enh => key_points = <<>>
                /\ "topics" \notin DOMAIN enh => r.topics = <<>>
                /\ "sentiment" \in DOMAIN r /\ "confidence" \in DOMAIN r
                /\ "sentiment" \notin DOMAIN enh => r.sentiment \notin SentimentLabels
                /\ "confidence" \notin DOMAIN tr => r.confidence \notin ConfidenceValues

(***************************************************************************)
(* C10.  With calls on the shared directory strictly serialized, every     *)
(* success record is built from an artifact the same call's process wrote. *)
(***************************************************************************)
C10_OwnArtifactOnly ==
    \A i \in Invocations :
        (Done(i) /\ IsSuccess(result[i]))
            => from[i] # <<>> /\ from[i][1].writer = i

====
